---- MODULE Spec2Model ----
(***************************************************************************)
(* "Sua Vida em Semanas" (vida_semanas_streamlit.py): a Streamlit page     *)
(* that draws a life as a grid of years x 52 weeks.                        *)
(*                                                                         *)
(* Two specifications share the variables:                                 *)
(*   Spec    the page: every user interaction reruns main() from top to    *)
(*           bottom at a later wall-clock time;                            *)
(*   SpecFn  the two pure functions called directly with explicit         *)
(*           arguments, calcular_semanas_vividas(data_nascimento,          *)
(*           data_atual) and then criar_grid_vida on its result.           *)
(*                                                                         *)
(* A datetime is [ord, sec]: the proleptic Gregorian ordinal of its date   *)
(* (date.toordinal()) and the seconds since midnight. Python lists are     *)
(* sequences, so the 0-based grid[ano][semana] is grid[ano+1][semana+1].   *)
(***************************************************************************)
EXTENDS Integers, Sequences, FiniteSets

VARIABLES
    pc,                 \* "main": a finished run of main(); "args", "semanas", "grid": a direct call
    data_atual,         \* datetime.now() of the run (line 19), or the explicit argument
    data_nascimento,    \* datetime of birth (line 136), or the explicit argument
    expectativa_vida,   \* slider value (line 127), or the explicit argument
    botao,              \* st.button("Gerar Relatorio CSV") of this run (line 244)
    semanas_vividas,    \* line 139
    grid_data,          \* line 142
    semanas_restantes,  \* line 148
    porcentagem_vivida, \* line 149, the exact ratio <<numerator, denominator>>
    anos_dados,         \* lines 209-223
    dados_csv           \* lines 246-255; <<>> when the button was not pressed

vars == <<pc, data_atual, data_nascimento, expectativa_vida, botao, semanas_vividas,
          grid_data, semanas_restantes, porcentagem_vivida, anos_dados, dados_csv>>

(***************************************************************************)
(* Program constants.                                                      *)
(***************************************************************************)
DiasPorSemana == 7
semanas_por_linha == 52
SemanasPorAno == 52
AnosPorPeriodo == 10
MinExpectativa == 50
MaxExpectativa == 100
DefaultExpectativa == 80
SegundosPorDia == 86400

(***************************************************************************)
(* Bounds of the model.                                                    *)
(***************************************************************************)
MaxDias == 6            \* days the wall clock may advance past the first run

Max(a, b) == IF a >= b THEN a ELSE b
Min(a, b) == IF a <= b THEN a ELSE b

(***************************************************************************)
(* datetime: calendar arithmetic of Python's datetime module.              *)
(***************************************************************************)
IsLeap(y) == y % 4 = 0 /\ (y % 100 # 0 \/ y % 400 = 0)

DaysInMonth(y, m) ==
    IF m = 2 THEN (IF IsLeap(y) THEN 29 ELSE 28)
    ELSE IF m \in {4, 6, 9, 11} THEN 30 ELSE 31

DaysBeforeYear(y) ==
    (y - 1) * 365 + ((y - 1) \div 4) - ((y - 1) \div 100) + ((y - 1) \div 400)

\* _DAYS_BEFORE_MONTH[m], plus the leap day once February has passed
DaysBeforeMonthTable == <<0, 31, 59, 90, 120, 151, 181, 212, 243, 273, 304, 334>>

DaysBeforeMonth(y, m) ==
    DaysBeforeMonthTable[m] + (IF m > 2 /\ IsLeap(y) THEN 1 ELSE 0)

\* datetime(y, m, d).toordinal()
Ymd2Ord(y, m, d) == DaysBeforeYear(y) + DaysBeforeMonth(y, m) + d

\* datetime(y, m, d): midnight of that date
DateTime(y, m, d) == [ord |-> Ymd2Ord(y, m, d), sec |-> 0]

\* date.fromordinal(n) as <<year, month, day>>, by the 400/100/4/1-year cycles
Ord2Ymd(ord) ==
    LET n0   == ord - 1
        n400 == n0 \div 146097
        r400 == n0 % 146097
        n100 == r400 \div 36524
        r100 == r400 % 36524
        n4   == r100 \div 1461
        r4   == r100 % 1461
        n1   == r4 \div 365
        n    == r4 % 365
        year == n400 * 400 + 1 + n100 * 100 + n4 * 4 + n1
        leap == n1 = 3 /\ (n4 # 24 \/ n100 = 3)
        m0   == (n + 50) \div 32
        p0   == DaysBeforeMonth(IF leap THEN 4 ELSE 1, m0)
        month == IF p0 > n THEN m0 - 1 ELSE m0
        prec  == DaysBeforeMonth(IF leap THEN 4 ELSE 1, month)
    IN  IF n1 = 4 \/ n100 = 4
        THEN <<year - 1, 12, 31>>
        ELSE <<year, month, n - prec + 1>>

\* mutant: the difference of the two dates, the time of day dropped
TimedeltaDays_SoDatas(a, b) == a.ord - b.ord

\* (a - b).days: a timedelta is normalised to 0 <= seconds < 86400, so days is the floor
TimedeltaDays(a, b) == (a.ord - b.ord) + ((a.sec - b.sec) \div SegundosPorDia)

\* dt + timedelta(days = d, seconds = s), 0 <= s < 86400
AddTimedelta(dt, d, s) ==
    [ord |-> dt.ord + d + ((dt.sec + s) \div SegundosPorDia),
     sec |-> (dt.sec + s) % SegundosPorDia]

\* dt.strftime('%Y-%m-%d'), as the numbers the text spells
StrftimeYmd(dt) == Ord2Ymd(dt.ord)

\* int(p / q) for q > 0: Python's int() truncates toward zero
IntTrunc(p, q) == IF p >= 0 THEN p \div q ELSE -((-p) \div q)

(***************************************************************************)
(* The functions of the program.                                           *)
(***************************************************************************)
\* mutant: the subtraction of line 21 with its operands swapped
calcular_semanas_vividas_Invertido(nascimento, atual) ==
    ((nascimento.ord - atual.ord) + ((nascimento.sec - atual.sec) \div SegundosPorDia))
        \div DiasPorSemana

\* lines 16-23; main passes datetime.now() (the default of line 19) as data_atual
calcular_semanas_vividas(nascimento, atual) ==
    LET delta_days == TimedeltaDays(atual, nascimento)
    IN  delta_days \div DiasPorSemana

\* mutant: line 39 with <= for <
Celula_Leq(ano, semana, vividas) ==
    LET semana_absoluta == ano * semanas_por_linha + semana
    IN  [ano |-> ano,
         semana |-> semana,
         semana_absoluta |-> semana_absoluta,
         status |-> IF semana_absoluta <= vividas THEN "vivida" ELSE "futura"]

\* lines 37-49: one cell of the grid
Celula(ano, semana, vividas) ==
    LET semana_absoluta == ano * semanas_por_linha + semana
    IN  [ano |-> ano,
         semana |-> semana,
         semana_absoluta |-> semana_absoluta,
         status |-> IF semana_absoluta < vividas THEN "vivida" ELSE "futura"]

\* mutant: line 34 as range(linhas - 1), the last year dropped
criar_grid_vida_FaltaLinha(vividas, expectativa) ==
    [a \in 1..(Max(expectativa, 1) - 1) |->
        [s \in 1..semanas_por_linha |->
            [ano |-> a - 1,
             semana |-> s - 1,
             semana_absoluta |-> (a - 1) * semanas_por_linha + (s - 1),
             status |-> IF (a - 1) * semanas_por_linha + (s - 1) < vividas
                        THEN "vivida" ELSE "futura"]]]

\* lines 25-52; range(linhas) is empty when linhas <= 0
criar_grid_vida(vividas, expectativa) ==
    LET linhas == Max(expectativa, 0)
    IN  [a \in 1..linhas |->
            [s \in 1..semanas_por_linha |-> Celula(a - 1, s - 1, vividas)]]

\* line 148
SemanasRestantes(vividas, expectativa) == expectativa * SemanasPorAno - vividas

\* line 149: (semanas_vividas / total_semanas) * 100 as an exact ratio
PorcentagemVivida(vividas, expectativa) == <<vividas * 100, expectativa * SemanasPorAno>>

\* mutant: line 210 without the + 10
LimitePeriodos_SemMargem(vividas, expectativa) ==
    IF expectativa <= (IF vividas >= 0 THEN vividas \div SemanasPorAno
                       ELSE -((-vividas) \div SemanasPorAno))
    THEN expectativa
    ELSE (IF vividas >= 0 THEN vividas \div SemanasPorAno ELSE -((-vividas) \div SemanasPorAno))

\* line 210: the stop of range(0, stop, 10), with idade_atual = semanas_vividas / 52
LimitePeriodos(vividas, expectativa) ==
    Min(expectativa, IntTrunc(vividas, SemanasPorAno) + AnosPorPeriodo)

\* line 210: list(range(0, stop, 10))
RangePeriodos(stop) ==
    LET n == IF stop <= 0 THEN 0 ELSE (stop + AnosPorPeriodo - 1) \div AnosPorPeriodo
    IN  [k \in 1..n |-> (k - 1) * AnosPorPeriodo]

\* mutant: line 215 without the max(0, ...)
SemanasVividasPeriodo_SemMax(vividas, inicio_ano, semanas_periodo) ==
    IF vividas - inicio_ano * SemanasPorAno <= semanas_periodo
    THEN vividas - inicio_ano * SemanasPorAno
    ELSE semanas_periodo

\* line 215
SemanasVividasPeriodo(vividas, inicio_ano, semanas_periodo) ==
    Max(0, Min(vividas - inicio_ano * SemanasPorAno, semanas_periodo))

\* mutant: line 212 without the min(..., expectativa_vida)
Periodo_SemLimite(i, vividas, expectativa) ==
    [Periodo |-> <<i, i + AnosPorPeriodo - 1>>,
     SemanasDoPeriodo |-> AnosPorPeriodo * SemanasPorAno,
     SemanasVividas |->
         (IF vividas - i * SemanasPorAno <= AnosPorPeriodo * SemanasPorAno
          THEN (IF vividas - i * SemanasPorAno >= 0 THEN vividas - i * SemanasPorAno ELSE 0)
          ELSE AnosPorPeriodo * SemanasPorAno),
     Progresso |->
         <<(IF vividas - i * SemanasPorAno <= AnosPorPeriodo * SemanasPorAno
            THEN (IF vividas - i * SemanasPorAno >= 0 THEN vividas - i * SemanasPorAno ELSE 0)
            ELSE AnosPorPeriodo * SemanasPorAno) * 100,
           AnosPorPeriodo * SemanasPorAno>>]

\* lines 211-223: one row of the decade table; the label "inicio-fim anos" is kept
\* as the two numbers it spells
Periodo(i, vividas, expectativa) ==
    LET inicio_ano == i
        fim_ano == Min(i + AnosPorPeriodo, expectativa)
        semanas_periodo == (fim_ano - inicio_ano) * SemanasPorAno
        semanas_vividas_periodo == SemanasVividasPeriodo(vividas, inicio_ano, semanas_periodo)
    IN  [Periodo |-> <<inicio_ano, fim_ano - 1>>,
         SemanasDoPeriodo |-> semanas_periodo,
         SemanasVividas |-> semanas_vividas_periodo,
         Progresso |-> IF semanas_periodo > 0
                       THEN <<semanas_vividas_periodo * 100, semanas_periodo>>
                       ELSE <<0, 1>>]

\* lines 209-223
AnosDados(vividas, expectativa) ==
    LET r == RangePeriodos(LimitePeriodos(vividas, expectativa))
    IN  [k \in 1..Len(r) |-> Periodo(r[k], vividas, expectativa)]

\* mutant: line 254 with the 1-based week number for the 0-based one
LinhaCsv_SemanaSeguinte(nascimento, c) ==
    [Ano |-> c.ano + 1,
     Semana_do_Ano |-> c.semana + 1,
     Semana_Absoluta |-> c.semana_absoluta + 1,
     Status |-> c.status,
     Data_Aproximada |->
         Ord2Ymd(nascimento.ord + (c.semana_absoluta + 1) * DiasPorSemana)]

\* lines 249-255: the CSV row of one cell
LinhaCsv(nascimento, c) ==
    [Ano |-> c.ano + 1,
     Semana_do_Ano |-> c.semana + 1,
     Semana_Absoluta |-> c.semana_absoluta + 1,
     Status |-> c.status,
     Data_Aproximada |->
         StrftimeYmd(AddTimedelta(nascimento, c.semana_absoluta * DiasPorSemana, 0))]

\* lines 247-248: the cells in the order the two loops visit them
RECURSIVE Celulas(_, _)
Celulas(grid, k) ==
    IF k > Len(grid) THEN <<>> ELSE grid[k] \o Celulas(grid, k + 1)

\* lines 246-255
DadosCsv(nascimento, grid) ==
    LET cs == Celulas(grid, 1)
    IN  [i \in 1..Len(cs) |-> LinhaCsv(nascimento, cs[i])]

(***************************************************************************)
(* Spec: the page. The script is single-threaded and runs to completion,   *)
(* so one run of main() is one step.                                       *)
(***************************************************************************)
\* the wall clock of the first run
Inicio == DateTime(2024, 1, 1)

\* line 122: min_value of the date input
MinNascimento == DateTime(1900, 1, 1)

\* line 121: value of the date input before the user touches it
DefaultNascimento == DateTime(1990, 1, 1)

\* how far the wall clock moves between two runs: <<days, seconds>>
Passos == {<<1, 43200>>, <<5, 0>>}

\* dates the user picks in the date input
NascimentoAmostras ==
    {DateTime(1899, 12, 31), MinNascimento, DefaultNascimento, DateTime(1974, 3, 7),
     DateTime(2023, 12, 8), Inicio, DateTime(2024, 1, 3)}

\* values the user drags the slider to
ExpectativaAmostras == {MinExpectativa, 57, DefaultExpectativa, MaxExpectativa}

\* lines 119-124: the date input accepts min_value <= d <= max_value = today
DateInputAceita(d, agora) == MinNascimento.ord <= d.ord /\ d.ord <= agora.ord

\* lines 127-133: the slider yields min_value..max_value
SliderAceita(e) == MinExpectativa <= e /\ e <= MaxExpectativa

\* lines 136-255: everything one run of main() computes
Main(nascimento, expectativa, agora, clicado) ==
    LET vividas == calcular_semanas_vividas(nascimento, agora)
        grid == criar_grid_vida(vividas, expectativa)
    IN  [semanas_vividas |-> vividas,
         grid_data |-> grid,
         semanas_restantes |-> SemanasRestantes(vividas, expectativa),
         porcentagem_vivida |-> PorcentagemVivida(vividas, expectativa),
         anos_dados |-> AnosDados(vividas, expectativa),
         dados_csv |-> IF clicado THEN DadosCsv(nascimento, grid) ELSE <<>>]

\* one run of the script at time agora with the widget values given
Rerun(nascimento, expectativa, agora, clicado) ==
    LET m == Main(nascimento, expectativa, agora, clicado)
    IN  /\ pc' = "main"
        /\ data_atual' = agora
        /\ data_nascimento' = nascimento
        /\ expectativa_vida' = expectativa
        /\ botao' = clicado
        /\ semanas_vividas' = m.semanas_vividas
        /\ grid_data' = m.grid_data
        /\ semanas_restantes' = m.semanas_restantes
        /\ porcentagem_vivida' = m.porcentagem_vivida
        /\ anos_dados' = m.anos_dados
        /\ dados_csv' = m.dados_csv

\* the wall clock only moves forward, here at most MaxDias days past Inicio
Relogio(agora) ==
    /\ \E p \in Passos : agora = AddTimedelta(data_atual, p[1], p[2])
    /\ TimedeltaDays(agora, Inicio) <= MaxDias

Init ==
    LET m == Main(DefaultNascimento, DefaultExpectativa, Inicio, FALSE)
    IN  /\ pc = "main"
        /\ data_atual = Inicio
        /\ data_nascimento = DefaultNascimento
        /\ expectativa_vida = DefaultExpectativa
        /\ botao = FALSE
        /\ semanas_vividas = m.semanas_vividas
        /\ grid_data = m.grid_data
        /\ semanas_restantes = m.semanas_restantes
        /\ porcentagem_vivida = m.porcentagem_vivida
        /\ anos_dados = m.anos_dados
        /\ dados_csv = m.dados_csv

\* the user picks another birth date
EscolherNascimento ==
    /\ pc = "main"
    /\ \E agora \in {AddTimedelta(data_atual, p[1], p[2]) : p \in Passos} :
       \E d \in NascimentoAmostras :
          /\ Relogio(agora)
          /\ DateInputAceita(d, agora)
          /\ Rerun(d, expectativa_vida, agora, FALSE)

\* the user drags the slider
EscolherExpectativa ==
    /\ pc = "main"
    /\ \E agora \in {AddTimedelta(data_atual, p[1], p[2]) : p \in Passos} :
       \E e \in ExpectativaAmostras :
          /\ Relogio(agora)
          /\ SliderAceita(e)
          /\ Rerun(data_nascimento, e, agora, FALSE)

\* the page is run again with the same widget values
Recarregar ==
    /\ pc = "main"
    /\ \E agora \in {AddTimedelta(data_atual, p[1], p[2]) : p \in Passos} :
          /\ Relogio(agora)
          /\ Rerun(data_nascimento, expectativa_vida, agora, FALSE)

\* the user presses "Gerar Relatorio CSV": the run sees the button as True
GerarCsv ==
    /\ pc = "main"
    /\ \E agora \in {AddTimedelta(data_atual, p[1], p[2]) : p \in Passos} :
          /\ Relogio(agora)
          /\ Rerun(data_nascimento, expectativa_vida, agora, TRUE)

Next == EscolherNascimento \/ EscolherExpectativa \/ Recarregar \/ GerarCsv

Spec == Init /\ [][Next]_vars

(***************************************************************************)
(* SpecFn: the two functions called directly, with explicit arguments.     *)
(***************************************************************************)
MaxFnDias == 8          \* days of data_atual past Inicio in the direct calls

FnNascimentos ==
    {MinNascimento, DefaultNascimento, [ord |-> Inicio.ord - 7, sec |-> 43200],
     [ord |-> Inicio.ord, sec |-> 43200], [ord |-> Inicio.ord + 8, sec |-> 0]}

FnAtuais == {[ord |-> Inicio.ord + d, sec |-> s] : d \in 0..MaxFnDias, s \in {0, 64800}}

FnExpectativas == {1, MinExpectativa, MaxExpectativa}

InitFn ==
    /\ pc = "args"
    /\ data_nascimento \in FnNascimentos
    /\ data_atual \in FnAtuais
    /\ expectativa_vida \in FnExpectativas
    /\ botao = FALSE
    /\ semanas_vividas = 0
    /\ grid_data = <<>>
    /\ semanas_restantes = 0
    /\ porcentagem_vivida = <<0, 1>>
    /\ anos_dados = <<>>
    /\ dados_csv = <<>>

\* semanas_vividas = calcular_semanas_vividas(data_nascimento, data_atual)
ChamarCalcular ==
    /\ pc = "args"
    /\ pc' = "semanas"
    /\ semanas_vividas' = calcular_semanas_vividas(data_nascimento, data_atual)
    /\ UNCHANGED <<data_atual, data_nascimento, expectativa_vida, botao, grid_data,
                   semanas_restantes, porcentagem_vivida, anos_dados, dados_csv>>

\* grid_data = criar_grid_vida(semanas_vividas, expectativa_vida)
ChamarCriarGrid ==
    /\ pc = "semanas"
    /\ pc' = "grid"
    /\ grid_data' = criar_grid_vida(semanas_vividas, expectativa_vida)
    /\ UNCHANGED <<data_atual, data_nascimento, expectativa_vida, botao, semanas_vividas,
                   semanas_restantes, porcentagem_vivida, anos_dados, dados_csv>>

NextFn == ChamarCalcular \/ ChamarCriarGrid

SpecFn == InitFn /\ [][NextFn]_vars

(***************************************************************************)
(* Vocabulary of the properties.                                           *)
(***************************************************************************)
\* the 0-based positions <<ano, semana>> of the cells of grid marked "vivida"
Vividas(grid) ==
    UNION {{<<a - 1, w - 1>> : w \in {x \in 1..Len(grid[a]) : grid[a][x].status = "vivida"}} :
              a \in 1..Len(grid)}

\* the number of cells of grid
NumCelulas(grid) ==
    Cardinality(UNION {{<<a, w>> : w \in 1..Len(grid[a])} : a \in 1..Len(grid)})

\* a <= b on datetimes
DtLeq(a, b) == a.ord < b.ord \/ (a.ord = b.ord /\ a.sec <= b.sec)

\* dt moved forward by d whole days
MaisDias(dt, d) == [ord |-> dt.ord + d, sec |-> dt.sec]

\* <<y, m, d>> names a day of the calendar
DataValida(t) ==
    /\ t[2] \in 1..12
    /\ t[3] >= 1
    /\ t[3] <= (IF t[2] = 2
                THEN (IF t[1] % 4 = 0 /\ (t[1] % 100 # 0 \/ t[1] % 400 = 0) THEN 29 ELSE 28)
                ELSE IF t[2] \in {4, 6, 9, 11} THEN 30 ELSE 31)

\* the bucket [inicio, fim) a row of the decade table reports
Inicio_(linha) == linha.Periodo[1]
Fim_(linha) == linha.Periodo[2] + 1

RECURSIVE SomaVividas(_, _)
SomaVividas(tabela, k) ==
    IF k > Len(tabela) THEN 0 ELSE tabela[k].SemanasVividas + SomaVividas(tabela, k + 1)

Calculado == pc \in {"semanas", "grid"}

(***************************************************************************)
(* C1. Every cell of the grid criar_grid_vida returns sits at its own      *)
(* (ano, semana), carries semana_absoluta = ano * 52 + semana, and is      *)
(* "vivida" exactly when semana_absoluta < semanas_vividas, "futura"       *)
(* otherwise, whatever semanas_vividas is (negative, zero, beyond the      *)
(* grid).                                                                  *)
(***************************************************************************)
C1_StatusDaCelula ==
    pc = "grid" =>
        \A a \in 1..Len(grid_data) : \A w \in 1..Len(grid_data[a]) :
            LET c == grid_data[a][w]
            IN  /\ c.ano = a - 1
                /\ c.semana = w - 1
                /\ c.semana_absoluta = (a - 1) * 52 + (w - 1)
                /\ c.status \in {"vivida", "futura"}
                /\ (c.status = "vivida") <=> (c.semana_absoluta < semanas_vividas)

\* a grid that is part lived and part future
C1_Witness ==
    /\ pc = "grid"
    /\ semanas_vividas = 1774
    /\ expectativa_vida = 50
    /\ grid_data[35][6].status = "vivida"
    /\ grid_data[35][7].status = "futura"

(***************************************************************************)
(* C2. The grid has expectativa_vida rows of 52 cells; the number of       *)
(* "vivida" cells is min(semanas_vividas, expectativa_vida * 52) while     *)
(* semanas_vividas <= total and every cell otherwise; no week lived gives  *)
(* an all-"futura" grid and more weeks than the grid an all-"vivida" one.  *)
(***************************************************************************)
C2_TamanhoEContagem ==
    pc = "main" =>
        LET total == expectativa_vida * 52
            n == Cardinality(Vividas(grid_data))
        IN  /\ Len(grid_data) = expectativa_vida
            /\ \A a \in 1..Len(grid_data) : Len(grid_data[a]) = 52
            /\ NumCelulas(grid_data) = total
            /\ n = (IF semanas_vividas <= total THEN semanas_vividas ELSE total)
            /\ (semanas_vividas = 0 => n = 0)
            /\ (semanas_vividas > total => n = total)

\* someone older than the grid: every cell is lived
C2_Witness ==
    /\ pc = "main"
    /\ semanas_vividas > expectativa_vida * 52
    /\ Cardinality(Vividas(grid_data)) = expectativa_vida * 52
    /\ grid_data[expectativa_vida][52].status = "vivida"

(***************************************************************************)
(* C3. calcular_semanas_vividas never returns a negative number of weeks,  *)
(* also when data_atual is before data_nascimento.                         *)
(***************************************************************************)
C3_NuncaNegativo == Calculado => semanas_vividas >= 0

(***************************************************************************)
(* C4. The remaining weeks main shows are max(0, total - semanas_vividas)  *)
(* with total = expectativa_vida * 52: never negative, and 0 once          *)
(* semanas_vividas >= total.                                               *)
(***************************************************************************)
C4_RestantesLimitadas ==
    pc = "main" =>
        LET total == expectativa_vida * 52
        IN  /\ semanas_restantes = (IF total - semanas_vividas >= 0
                                    THEN total - semanas_vividas ELSE 0)
            /\ semanas_restantes >= 0
            /\ (semanas_vividas >= total => semanas_restantes = 0)

(***************************************************************************)
(* C5 as stated. The decade table partitions the whole of                  *)
(* [0, expectativa_vida): buckets start at 0, 10, 20, ..., each ends at    *)
(* min(start + 10, expectativa_vida), and together they hold every year    *)
(* index below expectativa_vida, however many weeks have been lived.       *)
(***************************************************************************)
C5_ParticaoCompleta ==
    pc = "main" =>
        /\ \A k \in 1..Len(anos_dados) :
              /\ Inicio_(anos_dados[k]) = (k - 1) * 10
              /\ Fim_(anos_dados[k]) =
                    (IF (k - 1) * 10 + 10 <= expectativa_vida
                     THEN (k - 1) * 10 + 10 ELSE expectativa_vida)
        /\ UNION {Inicio_(anos_dados[k])..(Fim_(anos_dados[k]) - 1) : k \in 1..Len(anos_dados)}
              = 0..(expectativa_vida - 1)

(***************************************************************************)
(* C5 as amended. The decade table holds exactly the buckets that start    *)
(* at a multiple of 10 below min(expectativa_vida, int(semanas_vividas /   *)
(* 52) + 10): they start at 0, 10, 20, ..., each ends at min(start + 10,   *)
(* expectativa_vida), they are disjoint and consecutive, and their union   *)
(* is the year indices from 0 to the end of the last one, which holds the  *)
(* current year of age when that is inside the grid. Decades starting ten  *)
(* years or more after the current age are left out.                       *)
(***************************************************************************)
C5_ParticaoAteIdade ==
    pc = "main" =>
        LET idade == IF semanas_vividas >= 0 THEN semanas_vividas \div 52
                     ELSE -((-semanas_vividas) \div 52)
            limite == IF expectativa_vida <= idade + 10 THEN expectativa_vida ELSE idade + 10
            n == Len(anos_dados)
            anos == UNION {Inicio_(anos_dados[k])..(Fim_(anos_dados[k]) - 1) : k \in 1..n}
        IN  /\ {Inicio_(anos_dados[k]) : k \in 1..n}
                  = {i \in 0..(expectativa_vida - 1) : i % 10 = 0 /\ i < limite}
            /\ \A k \in 1..n :
                  /\ Inicio_(anos_dados[k]) = (k - 1) * 10
                  /\ Fim_(anos_dados[k]) =
                        (IF Inicio_(anos_dados[k]) + 10 <= expectativa_vida
                         THEN Inicio_(anos_dados[k]) + 10 ELSE expectativa_vida)
                  /\ Fim_(anos_dados[k]) > Inicio_(anos_dados[k])
                  /\ (k < n => Fim_(anos_dados[k]) = Inicio_(anos_dados[k + 1]))
                  /\ (k < n => Fim_(anos_dados[k]) - Inicio_(anos_dados[k]) = 10)
            /\ \A j, k \in 1..n :
                  j # k => (Inicio_(anos_dados[j])..(Fim_(anos_dados[j]) - 1))
                             \cap (Inicio_(anos_dados[k])..(Fim_(anos_dados[k]) - 1)) = {}
            /\ n >= 1
            /\ anos = 0..(Fim_(anos_dados[n]) - 1)
            /\ (idade < expectativa_vida => idade \in anos)
            /\ (idade >= expectativa_vida => anos = 0..(expectativa_vida - 1))

\* aged 34 with 57 years expected: the table ends at year 49, years 50..56 are left out
C5_Witness ==
    /\ pc = "main"
    /\ expectativa_vida = 57
    /\ semanas_vividas = 1774
    /\ Len(anos_dados) = 5
    /\ anos_dados[5].Periodo = <<40, 49>>

(***************************************************************************)
(* C6. For data_atual >= data_nascimento, calcular_semanas_vividas returns *)
(* floor(d / 7) with d the whole days elapsed: the result w is the one     *)
(* number with data_nascimento + 7w days <= data_atual <                   *)
(* data_nascimento + 7(w + 1) days.                                        *)
(***************************************************************************)
C6_PisoDosDias ==
    (Calculado /\ DtLeq(data_nascimento, data_atual)) =>
        /\ semanas_vividas >= 0
        /\ DtLeq(MaisDias(data_nascimento, 7 * semanas_vividas), data_atual)
        /\ ~DtLeq(MaisDias(data_nascimento, 7 * (semanas_vividas + 1)), data_atual)

\* 1990-01-01 to 2024-01-01: 12418 days, 1774 weeks
C6_Witness ==
    /\ pc = "semanas"
    /\ data_nascimento = [ord |-> 726468, sec |-> 0]
    /\ data_atual = [ord |-> 738886, sec |-> 0]
    /\ semanas_vividas = 1774

(***************************************************************************)
(* C7. From one run of the page to the next, with the birth date and the   *)
(* life expectancy unchanged and the clock not moved back, semanas_vividas *)
(* does not decrease, the number of "vivida" cells does not decrease, and  *)
(* no "vivida" cell becomes "futura".                                      *)
(***************************************************************************)
C7_Monotonia ==
    [][(/\ pc = "main" /\ pc' = "main"
        /\ data_nascimento' = data_nascimento
        /\ expectativa_vida' = expectativa_vida
        /\ DtLeq(data_atual, data_atual'))
       => (/\ semanas_vividas' >= semanas_vividas
           /\ Cardinality(Vividas(grid_data')) >= Cardinality(Vividas(grid_data))
           /\ Vividas(grid_data) \subseteq Vividas(grid_data'))]_vars

\* a run after which reloading the page, nothing else changed, turns a week lived
C7_Witness ==
    /\ pc = "main"
    /\ semanas_vividas = 3
    /\ grid_data[1][4].status = "futura"
    /\ ENABLED (Recarregar /\ semanas_vividas' = 4 /\ grid_data'[1][4].status = "vivida")

(***************************************************************************)
(* C8. A generated CSV has expectativa_vida * 52 rows, one per cell in     *)
(* row-major order: row i (from 0) has Ano = i div 52 + 1, Semana_do_Ano = *)
(* i mod 52 + 1, Semana_Absoluta = i + 1, the status of cell i, and as     *)
(* Data_Aproximada the calendar date i weeks after the birth date.         *)
(***************************************************************************)
C8_LinhasDoCsv ==
    (pc = "main" /\ botao) =>
        /\ Len(dados_csv) = expectativa_vida * 52
        /\ \A i \in 0..(Len(dados_csv) - 1) :
              LET r == dados_csv[i + 1]
              IN  /\ r.Ano = (i \div 52) + 1
                  /\ r.Semana_do_Ano = (i % 52) + 1
                  /\ r.Semana_Absoluta = i + 1
                  /\ r.Status = grid_data[(i \div 52) + 1][(i % 52) + 1].status
                  /\ DataValida(r.Data_Aproximada)
                  /\ Ymd2Ord(r.Data_Aproximada[1], r.Data_Aproximada[2], r.Data_Aproximada[3])
                        = data_nascimento.ord + 7 * i

\* the export of the default page: 4160 rows from 1990-01-01, the leap day of 2024 passed
C8_Witness ==
    /\ pc = "main"
    /\ botao
    /\ Len(dados_csv) = 4160
    /\ dados_csv[1].Data_Aproximada = <<1990, 1, 1>>
    /\ dados_csv[1784].Data_Aproximada = <<2024, 3, 4>>
    /\ dados_csv[1784].Status = "futura"

(***************************************************************************)
(* C9. Every row of the decade table, for its bucket [start, end), reports *)
(* (end - start) * 52 weeks, max(0, min(semanas_vividas - start * 52,      *)
(* weeks)) weeks lived, which lies in [0, weeks], and a percent in         *)
(* [0, 100].                                                               *)
(***************************************************************************)
C9_LinhaDoPeriodo ==
    pc = "main" =>
        \A k \in 1..Len(anos_dados) :
            LET r == anos_dados[k]
                semanas == (Fim_(r) - Inicio_(r)) * 52
                bruto == semanas_vividas - Inicio_(r) * 52
                limitado == IF bruto <= semanas THEN bruto ELSE semanas
            IN  /\ r.SemanasDoPeriodo = semanas
                /\ r.SemanasVividas = (IF limitado >= 0 THEN limitado ELSE 0)
                /\ 0 <= r.SemanasVividas
                /\ r.SemanasVividas <= semanas
                /\ r.Progresso[2] > 0
                /\ r.Progresso[1] * semanas = r.SemanasVividas * 100 * r.Progresso[2]
                /\ 0 <= r.Progresso[1]
                /\ r.Progresso[1] <= 100 * r.Progresso[2]

\* a bucket that starts after the weeks lived (clamped to 0) after a full one
C9_Witness ==
    /\ pc = "main"
    /\ Len(anos_dados) >= 2
    /\ semanas_vividas - Inicio_(anos_dados[Len(anos_dados)]) * 52 < 0
    /\ anos_dados[Len(anos_dados)].SemanasVividas = 0
    /\ anos_dados[1].Progresso = <<52000, 520>>

(***************************************************************************)
(* C10. The decade table agrees with the grid: each row reports as many    *)
(* lived weeks as the grid has "vivida" cells in the years of its bucket,  *)
(* and the rows add up to all the "vivida" cells of the grid,              *)
(* min(semanas_vividas, expectativa_vida * 52): no bucket holding a lived  *)
(* week is left out.                                                       *)
(***************************************************************************)
C10_TabelaConcordaComGrid ==
    pc = "main" =>
        LET v == Vividas(grid_data)
            total == expectativa_vida * 52
        IN  /\ \A k \in 1..Len(anos_dados) :
                  anos_dados[k].SemanasVividas =
                     Cardinality({p \in v : /\ Inicio_(anos_dados[k]) <= p[1]
                                            /\ p[1] < Fim_(anos_dados[k])})
            /\ SomaVividas(anos_dados, 1) = Cardinality(v)
            /\ Cardinality(v) = (IF semanas_vividas <= total THEN semanas_vividas ELSE total)

\* three weeks old: one row, three lived cells
C10_Witness ==
    /\ pc = "main"
    /\ semanas_vividas = 3
    /\ Len(anos_dados) = 1
    /\ anos_dados[1].SemanasVividas = 3
    /\ Cardinality(Vividas(grid_data)) = 3

====
